---------------------------- MODULE Spec2Model ----------------------------
(***************************************************************************)
(* imgur-enumerator (src/src/main.rs): a bounded-concurrency prober that   *)
(* issues HEAD requests for random candidates, counts them in four shared  *)
(* atomics, fans every hit out over mpsc channels to three sink threads,   *)
(* and a statistics thread that prints and resets the windowed counters.   *)
(*                                                                         *)
(* Threads: main (the tokio pipeline of lines 274-341), stream_to_file,    *)
(* stream_to_webhook, stream_to_telegram, print_statistics.  Every atomic  *)
(* operation and every channel operation is one step, so that all the      *)
(* interleavings of the threads are explored.                              *)
(***************************************************************************)
EXTENDS Integers, Sequences, FiniteSets, TLC

(***************************************************************************)
(* Bounds of the model.                                                    *)
(***************************************************************************)
MaxConcurrent == 2      \* --concurrent ranges over 0..MaxConcurrent
MaxProbes == 2          \* requests issued in one run
MaxTicks == 21          \* 50 ms sleeps of print_statistics in one run
MaxMinuteTicks == 2400  \* the same, in the run that lasts two minutes

(***************************************************************************)
(* Program constants.                                                      *)
(***************************************************************************)
TickMs == 50            \* thread::sleep(Duration::from_millis(50))
SecondMs == 1000        \* elapsed_milliseconds % 1000
MinuteSeconds == 60     \* elapsed_seconds % 60
StatusOK == 200         \* StatusCode::OK

BASE_URL == <<"https", "i.imgur.com", "/">>

(***************************************************************************)
(* Inputs: the random tokens of the generator, and what the remote host    *)
(* can answer.  A Content-Length header is absent (None) or a string of    *)
(* characters.                                                             *)
(***************************************************************************)
Tokens == {"aaaaaaa", "bbbbbbb"}
None == <<>>
Some(x) == <<x>>
Digits == <<"0", "1", "2", "3", "4", "5", "6", "7", "8", "9">>
HeaderValues == {None, Some(<<"0", "7">>), Some(<<"1", "2">>), Some(<<"x">>)}
Statuses == {200, 204, 404}
Responses ==
    [status : {StatusOK}, content_length : HeaderValues]
        \cup [status : Statuses \ {StatusOK}, content_length : {None}]

VARIABLES
    n_concurrent,           \* --concurrent
    export,                 \* "none" | "plain" (--export) | "size" (--export --report-size)
    hook_on,                \* --id and --token given
    tg_on,                  \* --tg-channel and --tg-token given
    request_per_second, found_per_minute, total_requests, total_found,
    mainPc,                 \* where the main thread's pipeline is
    queue,                  \* buffer_unordered: the requests in flight
    cur,                    \* the (res, uri) the and_then closure is working on
    issued,                 \* requests issued so far
    chan,                   \* the four mpsc channels: the values queued in each
    rx_alive,               \* whether the Receiver of each channel still exists
    filePc, file_url, file_size, file,
    hookPc, hook_url, hook_calls,
    tgPc, tg_url, tg_calls,
    statPc, elapsed_seconds, elapsed_milliseconds,
    cached_found_per_seconds, cached_found_per_minute,
    loaded_total_requests,  \* the first argument of print!, already evaluated
    rendered,               \* the line print! wrote last
    ticks,                  \* sleeps of print_statistics so far
    h                       \* history of the run, read by the properties only

config == <<n_concurrent, export, hook_on, tg_on>>
counters == <<request_per_second, found_per_minute, total_requests, total_found>>
prober == <<mainPc, queue, cur, issued>>
channels == <<chan, rx_alive>>
fileSink == <<filePc, file_url, file_size, file>>
hookSink == <<hookPc, hook_url, hook_calls>>
tgSink == <<tgPc, tg_url, tg_calls>>
sinks == <<fileSink, hookSink, tgSink>>
reporter == <<statPc, elapsed_seconds, elapsed_milliseconds,
              cached_found_per_seconds, cached_found_per_minute,
              loaded_total_requests, rendered, ticks>>
vars == <<config, counters, prober, channels, sinks, reporter, h>>

Channels == {"tx", "tx_hook", "tx_tg", "tx_size"}

(***************************************************************************)
(* Pure functions.                                                         *)
(***************************************************************************)
\* UriGenerator::next: base_url + 7 random alphanumerics + extension, parsed.
UriGenerator_next(tok) ==
    [scheme |-> BASE_URL[1], authority |-> BASE_URL[2],
     path_and_query |-> <<BASE_URL[3], tok, ".png">>]

\* format!("{}://{}{}", scheme, authority, path_and_query)
ImageUrl(uri) == <<uri.scheme, "://", uri.authority>> \o uri.path_and_query

DigitValue(c) == (CHOOSE i \in 1..Len(Digits) : Digits[i] = c) - 1

RECURSIVE ParseDigits(_, _)
ParseDigits(s, acc) ==
    IF s = <<>> THEN acc
    ELSE ParseDigits(Tail(s), acc * Len(Digits) + DigitValue(Head(s)))

\* size.to_str() and then size.parse::<u64>(): Some(number), or None.
ParseU64(s) ==
    IF Len(s) > 0 /\ \A i \in 1..Len(s) : \E d \in 1..Len(Digits) : Digits[d] = s[i]
    THEN Some(ParseDigits(s, 0))
    ELSE None

\* Display of a u64, as format! writes it: decimal, no leading zeros.
RECURSIVE FormatU64(_)
FormatU64(n) ==
    IF n < Len(Digits) THEN <<Digits[n + 1]>>
    ELSE FormatU64(n \div Len(Digits)) \o <<Digits[(n % Len(Digits)) + 1]>>

\* The size a response declares: the number in its Content-Length header,
\* or None without the header or when it is not a number.
Declared(res) ==
    IF res.content_length = None THEN None ELSE ParseU64(res.content_length[1])

\* mpsc::Sender::send: queues the value, or fails when the Receiver is gone.
Send(c, v) ==
    IF rx_alive[c]
    THEN /\ chan' = [chan EXCEPT ![c] = Append(@, v)]
         /\ h' = [h EXCEPT !.enq[c] = Append(@, v)]
    ELSE /\ chan' = chan
         /\ h' = [h EXCEPT !.fail[c] = @ + 1]

RemoveAt(s, i) == SubSeq(s, 1, i - 1) \o SubSeq(s, i + 1, Len(s))

Bump(f) == [h EXCEPT ![f] = @ + 1]

(***************************************************************************)
(* The main thread: lines 274-341.  stream::iter_ok(images).map(request)   *)
(* .buffer_unordered(n_concurrent).and_then(classify).for_each(..), run to *)
(* its end by tokio::run inside `loop`.                                    *)
(***************************************************************************)

\* buffer_unordered fills its queue from the generator while it holds fewer
\* than n_concurrent futures; the map closure builds one HEAD request each.
\* Faulty variant of Issue: the bound of the queue is off by one.
IssueOneTooMany(tokens) ==
    /\ mainPc = "poll"
    /\ Len(queue) <= n_concurrent
    /\ issued < MaxProbes
    /\ \E tok \in tokens : queue' = Append(queue, UriGenerator_next(tok))
    /\ issued' = issued + 1
    /\ UNCHANGED <<config, counters, mainPc, cur, channels, sinks, reporter, h>>

Issue(tokens) ==
    /\ mainPc = "poll"
    /\ Len(queue) < n_concurrent
    /\ issued < MaxProbes
    /\ \E tok \in tokens : queue' = Append(queue, UriGenerator_next(tok))
    /\ issued' = issued + 1
    /\ UNCHANGED <<config, counters, mainPc, cur, channels, sinks, reporter, h>>

\* The queue is polled only once it is full (the generator never runs dry).
Filled == Len(queue) = n_concurrent \/ issued = MaxProbes

\* Faulty variant of YieldResponse: a response is yielded from a queue that
\* was not filled up first.
YieldResponseUnfilled(responses) ==
    /\ mainPc = "poll"
    /\ \E i \in 1..Len(queue), res \in responses :
         /\ cur' = [res |-> res, uri |-> queue[i]]
         /\ queue' = RemoveAt(queue, i)
         /\ h' = [h EXCEPT !.responses = @ + 1,
                           !.ok = @ + (IF res.status = StatusOK THEN 1 ELSE 0),
                           !.found = IF res.status = StatusOK
                                     THEN Append(@, ImageUrl(queue[i])) ELSE @,
                           !.declared = IF res.status = StatusOK
                                        THEN Append(@, Declared(res)) ELSE @,
                           !.twoxx = @ + (IF res.status \div 100 = 2 THEN 1 ELSE 0)]
    /\ mainPc' = "request_per_second"
    /\ UNCHANGED <<config, counters, issued, channels, sinks, reporter>>

\* One request in flight completes with a response: buffer_unordered yields
\* (res, uri) and and_then calls the closure on it.
YieldResponse(responses) ==
    /\ mainPc = "poll"
    /\ Filled
    /\ \E i \in 1..Len(queue), res \in responses :
         /\ cur' = [res |-> res, uri |-> queue[i]]
         /\ queue' = RemoveAt(queue, i)
         /\ h' = [h EXCEPT !.responses = @ + 1,
                           !.ok = @ + (IF res.status = StatusOK THEN 1 ELSE 0),
                           !.found = IF res.status = StatusOK
                                     THEN Append(@, ImageUrl(queue[i])) ELSE @,
                           !.declared = IF res.status = StatusOK
                                        THEN Append(@, Declared(res)) ELSE @,
                           !.twoxx = @ + (IF res.status \div 100 = 2 THEN 1 ELSE 0)]
    /\ mainPc' = "request_per_second"
    /\ UNCHANGED <<config, counters, issued, channels, sinks, reporter>>

\* One request in flight fails in the transport: buffer_unordered yields the
\* error, and_then passes it on without calling the closure, for_each ends
\* with it, map_err prints it and tokio::run returns.  The pipeline is
\* dropped with the requests still in flight.
YieldError ==
    /\ mainPc = "poll"
    /\ Filled
    /\ \E i \in 1..Len(queue) :
         h' = [h EXCEPT !.errors = @ + 1, !.dropped = @ + (Len(queue) - 1)]
    /\ queue' = <<>>
    /\ mainPc' = "ended"
    /\ UNCHANGED <<config, counters, cur, issued, channels, sinks, reporter>>

\* request_per_second.fetch_add(1)
CountRequest ==
    /\ mainPc = "request_per_second"
    /\ request_per_second' = request_per_second + 1
    /\ h' = [h EXCEPT !.req_incs = @ + 1, !.win_reqs = @ + 1,
                      !.raced = @ \/ (statPc = "rps_store")]
    /\ mainPc' = "total_requests"
    /\ UNCHANGED <<config, found_per_minute, total_requests, total_found,
                   queue, cur, issued, channels, sinks, reporter>>

\* Faulty variant of IsFound: every status of the 2xx class is a hit.
IsFoundAny2xx(res) == res.status \div 100 = 2

\* The classification: res.status() == StatusCode::OK
IsFound(res) == res.status = StatusOK

\* Faulty variant of CountTotalRequest: the status is not tested.
CountTotalRequestNoTest ==
    /\ mainPc = "total_requests"
    /\ total_requests' = total_requests + 1
    /\ mainPc' = "found_per_minute"
    /\ UNCHANGED <<config, request_per_second, found_per_minute, total_found,
                   queue, cur, issued, channels, sinks, reporter, h>>

\* total_requests.fetch_add(1), then the test of the status
CountTotalRequest ==
    /\ mainPc = "total_requests"
    /\ total_requests' = total_requests + 1
    /\ mainPc' = IF IsFound(cur.res) THEN "found_per_minute" ELSE "drain"
    /\ UNCHANGED <<config, request_per_second, found_per_minute, total_found,
                   queue, cur, issued, channels, sinks, reporter, h>>

\* found_per_minute.fetch_add(1)
CountFound ==
    /\ mainPc = "found_per_minute"
    /\ found_per_minute' = found_per_minute + 1
    /\ h' = [h EXCEPT !.found_incs = @ + 1, !.win_found = @ + 1]
    /\ mainPc' = "total_found"
    /\ UNCHANGED <<config, request_per_second, total_requests, total_found,
                   queue, cur, issued, channels, sinks, reporter>>

\* Faulty variant of CountTotalFound: the discovery is counted twice.
CountTotalFoundTwice ==
    /\ mainPc = "total_found"
    /\ total_found' = total_found + 2
    /\ mainPc' = "tx_size"
    /\ UNCHANGED <<config, request_per_second, found_per_minute, total_requests,
                   queue, cur, issued, channels, sinks, reporter, h>>

\* total_found.fetch_add(1)
CountTotalFound ==
    /\ mainPc = "total_found"
    /\ total_found' = total_found + 1
    /\ mainPc' = "tx_size"
    /\ UNCHANGED <<config, request_per_second, found_per_minute, total_requests,
                   queue, cur, issued, channels, sinks, reporter, h>>

\* The Content-Length header, when present and a number, goes to tx_size.
SendSize ==
    /\ mainPc = "tx_size"
    /\ LET size == Declared(cur.res)
       IN IF size # None THEN Send("tx_size", size[1]) ELSE UNCHANGED <<chan, h>>
    /\ mainPc' = "tx"
    /\ UNCHANGED <<config, counters, queue, cur, issued, rx_alive, sinks, reporter>>

\* Faulty variant of SendTx: a failed send ends the pipeline with an error.
SendTxOrFail ==
    /\ mainPc = "tx"
    /\ Send("tx", ImageUrl(cur.uri))
    /\ IF rx_alive["tx"]
       THEN mainPc' = "tx_hook" /\ UNCHANGED <<queue, cur>>
       ELSE mainPc' = "ended" /\ queue' = <<>> /\ cur' = None
    /\ UNCHANGED <<config, counters, issued, rx_alive, sinks, reporter>>

\* Faulty variant of SendTx: the channel holds one value and a send to a
\* full channel waits (mpsc::sync_channel(1)).
SendTxBounded ==
    /\ mainPc = "tx"
    /\ Len(chan["tx"]) < 1 \/ ~rx_alive["tx"]
    /\ Send("tx", ImageUrl(cur.uri))
    /\ mainPc' = "tx_hook"
    /\ UNCHANGED <<config, counters, queue, cur, issued, rx_alive, sinks, reporter>>

\* tx.send(image_url.clone()).is_err();
SendTx ==
    /\ mainPc = "tx"
    /\ Send("tx", ImageUrl(cur.uri))
    /\ mainPc' = "tx_hook"
    /\ UNCHANGED <<config, counters, queue, cur, issued, rx_alive, sinks, reporter>>

\* tx_hook.send(image_url.clone()).is_err();
SendHook ==
    /\ mainPc = "tx_hook"
    /\ Send("tx_hook", ImageUrl(cur.uri))
    /\ mainPc' = "tx_tg"
    /\ UNCHANGED <<config, counters, queue, cur, issued, rx_alive, sinks, reporter>>

\* tx_tg.send(image_url.clone()).is_err();
SendTg ==
    /\ mainPc = "tx_tg"
    /\ Send("tx_tg", ImageUrl(cur.uri))
    /\ mainPc' = "drain"
    /\ UNCHANGED <<config, counters, queue, cur, issued, rx_alive, sinks, reporter>>

\* res.into_body().concat2(): the body is read to its end, or the read fails
\* and ends the pipeline like a transport error does.
Drain ==
    /\ mainPc = "drain"
    /\ \E ok \in BOOLEAN :
         IF ok THEN /\ mainPc' = "poll"
                    /\ UNCHANGED <<queue, h>>
         ELSE /\ mainPc' = "ended"
              /\ queue' = <<>>
              /\ h' = [h EXCEPT !.body_errors = @ + 1, !.dropped = @ + Len(queue)]
    /\ cur' = None
    /\ UNCHANGED <<config, counters, issued, channels, sinks, reporter>>

\* Faulty variant of Restart: the loop is left when tokio::run has returned.
RestartBreaks ==
    /\ mainPc = "ended"
    /\ mainPc' = "exited"
    /\ h' = Bump("restarts")
    /\ UNCHANGED <<config, counters, queue, cur, issued, channels, sinks, reporter>>

\* tokio::run has returned: `loop` builds a new client and a new pipeline
\* (HttpsConnector::new is taken to succeed, as it did for the first one).
Restart ==
    /\ mainPc = "ended"
    /\ mainPc' = "poll"
    /\ h' = Bump("restarts")
    /\ UNCHANGED <<config, counters, queue, cur, issued, channels, sinks, reporter>>

Prober(tokens, responses) ==
    \/ Issue(tokens) \/ YieldResponse(responses) \/ YieldError
    \/ CountRequest \/ CountTotalRequest \/ CountFound \/ CountTotalFound
    \/ SendSize \/ SendTx \/ SendHook \/ SendTg
    \/ Drain \/ Restart

(***************************************************************************)
(* print_statistics: lines 112-150.  One iteration of its loop prints,     *)
(* samples on a second boundary, sleeps 50 ms.  The two loads of print!    *)
(* and the load and the store of each sample are separate atomic steps.    *)
(* elapsed_seconds and elapsed_milliseconds are i32: a run of MaxTicks     *)
(* sleeps stays far below 2^31.                                            *)
(***************************************************************************)

\* total_requests.load(), the fourth argument of print!
LoadTotalRequests ==
    /\ statPc = "print"
    /\ loaded_total_requests' = total_requests
    /\ statPc' = "print_found"
    /\ UNCHANGED <<config, counters, prober, channels, sinks, elapsed_seconds,
                   elapsed_milliseconds, cached_found_per_seconds,
                   cached_found_per_minute, rendered, ticks, h>>

\* if elapsed_milliseconds % 1000 == 0
OnSecond(ms) == ms % SecondMs = 0

\* if elapsed_seconds % 60 == 0
OnMinute(seconds) == seconds % MinuteSeconds = 0

\* total_found.load(), print! and flush; then the test of the second boundary
\* and, on it, elapsed_seconds += 1 and the test of the minute boundary.
PrintLine ==
    /\ statPc = "print_found"
    /\ rendered' = Some([req_per_sec |-> cached_found_per_seconds,
                         found_per_min |-> cached_found_per_minute,
                         uptime |-> elapsed_seconds,
                         total_reqs |-> loaded_total_requests,
                         total_found |-> total_found])
    /\ IF OnSecond(elapsed_milliseconds)
       THEN /\ elapsed_seconds' = elapsed_seconds + 1
            /\ statPc' = IF OnMinute(elapsed_seconds') THEN "fpm_load" ELSE "rps_load"
       ELSE /\ elapsed_seconds' = elapsed_seconds
            /\ statPc' = "sleep"
    /\ UNCHANGED <<config, counters, prober, channels, sinks, elapsed_milliseconds, h,
                   cached_found_per_seconds, cached_found_per_minute,
                   loaded_total_requests, ticks>>

\* cached_found_per_minute = found_per_minute.load()
LoadFoundPerMinute ==
    /\ statPc = "fpm_load"
    /\ cached_found_per_minute' = found_per_minute
    /\ h' = [h EXCEPT !.sum_min = @ + found_per_minute,
                      !.min_samples = @ + 1,
                      !.min_sample_win = h.win_found,
                      !.min_period = Some(ticks - h.min_at),
                      !.min_at = ticks]
    /\ statPc' = "fpm_store"
    /\ UNCHANGED <<config, counters, prober, channels, sinks, elapsed_seconds,
                   elapsed_milliseconds, cached_found_per_seconds,
                   loaded_total_requests, rendered, ticks>>

\* Faulty variant of StoreFoundPerMinute: total_found is set to zero too.
StoreFoundPerMinuteAndTotal ==
    /\ statPc = "fpm_store"
    /\ found_per_minute' = 0
    /\ total_found' = 0
    /\ h' = [h EXCEPT !.win_found = 0, !.min_resets = @ + 1]
    /\ statPc' = "rps_load"
    /\ UNCHANGED <<config, request_per_second, total_requests,
                   prober, channels, sinks, elapsed_seconds, elapsed_milliseconds,
                   cached_found_per_seconds, cached_found_per_minute,
                   loaded_total_requests, rendered, ticks>>

\* found_per_minute.store(0)
StoreFoundPerMinute ==
    /\ statPc = "fpm_store"
    /\ found_per_minute' = 0
    /\ h' = [h EXCEPT !.win_found = 0, !.min_resets = @ + 1]
    /\ statPc' = "rps_load"
    /\ UNCHANGED <<config, request_per_second, total_requests, total_found,
                   prober, channels, sinks, elapsed_seconds, elapsed_milliseconds,
                   cached_found_per_seconds, cached_found_per_minute,
                   loaded_total_requests, rendered, ticks>>

\* cached_found_per_seconds = request_per_second.load()
LoadRequestPerSecond ==
    /\ statPc = "rps_load"
    /\ cached_found_per_seconds' = request_per_second
    /\ h' = [h EXCEPT !.sum_sec = @ + request_per_second,
                      !.sec_samples = @ + 1,
                      !.sec_sample_win = h.win_reqs,
                      !.sec_period = IF h.sec_at = None THEN None
                                     ELSE Some(ticks - h.sec_at[1]),
                      !.sec_at = Some(ticks),
                      !.raced = FALSE]
    /\ statPc' = "rps_store"
    /\ UNCHANGED <<config, counters, prober, channels, sinks, elapsed_seconds,
                   elapsed_milliseconds, cached_found_per_minute,
                   loaded_total_requests, rendered, ticks>>

\* Faulty variant of StoreRequestPerSecond: the counter is not set to zero.
StoreRequestPerSecondNoReset ==
    /\ statPc = "rps_store"
    /\ request_per_second' = request_per_second
    /\ h' = [h EXCEPT !.win_reqs = 0, !.window = h.win_reqs]
    /\ statPc' = "sleep"
    /\ UNCHANGED <<config, found_per_minute, total_requests, total_found,
                   prober, channels, sinks, elapsed_seconds, elapsed_milliseconds,
                   cached_found_per_seconds, cached_found_per_minute,
                   loaded_total_requests, rendered, ticks>>

\* request_per_second.store(0)
StoreRequestPerSecond ==
    /\ statPc = "rps_store"
    /\ request_per_second' = 0
    /\ h' = [h EXCEPT !.win_reqs = 0, !.window = h.win_reqs, !.sec_resets = @ + 1]
    /\ statPc' = "sleep"
    /\ UNCHANGED <<config, found_per_minute, total_requests, total_found,
                   prober, channels, sinks, elapsed_seconds, elapsed_milliseconds,
                   cached_found_per_seconds, cached_found_per_minute,
                   loaded_total_requests, rendered, ticks>>

\* Faulty variant of Sleep: the clock is advanced by twice the time slept.
SleepCountedTwice ==
    /\ statPc = "sleep"
    /\ ticks < MaxTicks
    /\ elapsed_milliseconds' = elapsed_milliseconds + TickMs + TickMs
    /\ ticks' = ticks + 1
    /\ statPc' = "print"
    /\ UNCHANGED <<config, counters, prober, channels, sinks, elapsed_seconds,
                   cached_found_per_seconds, cached_found_per_minute,
                   loaded_total_requests, rendered, h>>

\* thread::sleep(Duration::from_millis(50)); elapsed_milliseconds += 50;
Sleep ==
    /\ statPc = "sleep"
    /\ ticks < MaxTicks
    /\ elapsed_milliseconds' = elapsed_milliseconds + TickMs
    /\ ticks' = ticks + 1
    /\ statPc' = "print"
    /\ UNCHANGED <<config, counters, prober, channels, sinks, elapsed_seconds,
                   cached_found_per_seconds, cached_found_per_minute,
                   loaded_total_requests, rendered, h>>

Reporter ==
    \/ LoadTotalRequests \/ PrintLine
    \/ LoadFoundPerMinute \/ StoreFoundPerMinute
    \/ LoadRequestPerSecond \/ StoreRequestPerSecond
    \/ Sleep

\* The same sleep in the run of two minutes.
SleepLong ==
    /\ statPc = "sleep"
    /\ ticks < MaxMinuteTicks
    /\ elapsed_milliseconds' = elapsed_milliseconds + TickMs
    /\ ticks' = ticks + 1
    /\ statPc' = "print"
    /\ UNCHANGED <<config, counters, prober, channels, sinks, elapsed_seconds,
                   cached_found_per_seconds, cached_found_per_minute,
                   loaded_total_requests, rendered, h>>

ReporterLong ==
    \/ LoadTotalRequests \/ PrintLine
    \/ LoadFoundPerMinute \/ StoreFoundPerMinute
    \/ LoadRequestPerSecond \/ StoreRequestPerSecond
    \/ SleepLong

(***************************************************************************)
(* The sink threads.  A thread that panics drops the Receivers it owns:    *)
(* what they still hold is lost and every later send to them fails.        *)
(***************************************************************************)

\* The Receivers moved into stream_to_file: rx, and rx_size with --report-size.
FileReceivers == IF export = "size" THEN {"tx", "tx_size"} ELSE {"tx"}

Drop(cs) ==
    /\ rx_alive' = [c \in Channels |-> rx_alive[c] /\ c \notin cs]
    /\ chan' = [c \in Channels |-> IF c \in cs THEN <<>> ELSE chan[c]]

\* OpenOptions::new().append(true).create(true).open(path).unwrap()
FileOpen ==
    /\ filePc = "open"
    /\ \E ok \in BOOLEAN :
         IF ok THEN filePc' = "recv" /\ UNCHANGED channels
         ELSE filePc' = "dead" /\ Drop(FileReceivers)
    /\ UNCHANGED <<config, counters, prober, file_url, file_size, file,
                   hookSink, tgSink, reporter, h>>

\* Faulty variant of FileRecv: the value queued last is taken first.
FileRecvNewest ==
    /\ filePc = "recv"
    /\ chan["tx"] # <<>>
    /\ file_url' = chan["tx"][Len(chan["tx"])]
    /\ chan' = [chan EXCEPT !["tx"] = SubSeq(@, 1, Len(@) - 1)]
    /\ filePc' = IF export = "size" THEN "try_recv" ELSE "write"
    /\ h' = [h EXCEPT !.file_recv = Append(@, chan["tx"][Len(chan["tx"])])]
    /\ UNCHANGED <<config, counters, prober, rx_alive, file_size, file,
                   hookSink, tgSink, reporter>>

\* for image_url in rx: blocks until a value is queued.
FileRecv ==
    /\ filePc = "recv"
    /\ chan["tx"] # <<>>
    /\ file_url' = Head(chan["tx"])
    /\ chan' = [chan EXCEPT !["tx"] = Tail(@)]
    /\ filePc' = IF export = "size" THEN "try_recv" ELSE "write"
    /\ h' = [h EXCEPT !.file_recv = Append(@, Head(chan["tx"]))]
    /\ UNCHANGED <<config, counters, prober, rx_alive, file_size, file,
                   hookSink, tgSink, reporter>>

\* Faulty variant of FileTryRecvSize: the size queued last is taken.
FileTryRecvSizeNewest ==
    /\ filePc = "try_recv"
    /\ IF chan["tx_size"] # <<>>
       THEN /\ file_size' = Some(chan["tx_size"][Len(chan["tx_size"])])
            /\ chan' = [chan EXCEPT !["tx_size"] = SubSeq(@, 1, Len(@) - 1)]
            /\ filePc' = "write"
            /\ h' = h
       ELSE /\ file_size' = None
            /\ chan' = chan
            /\ filePc' = "recv"
            /\ h' = Bump("file_skipped")
    /\ UNCHANGED <<config, counters, prober, rx_alive, file_url, file,
                   hookSink, tgSink, reporter>>

\* if let Ok(size) = rx_size.try_recv(): never blocks; with nothing queued
\* the body of the loop is skipped and no line is written for image_url.
FileTryRecvSize ==
    /\ filePc = "try_recv"
    /\ IF chan["tx_size"] # <<>>
       THEN /\ file_size' = Some(Head(chan["tx_size"]))
            /\ chan' = [chan EXCEPT !["tx_size"] = Tail(@)]
            /\ filePc' = "write"
            /\ h' = h
       ELSE /\ file_size' = None
            /\ chan' = chan
            /\ filePc' = "recv"
            /\ h' = Bump("file_skipped")
    /\ UNCHANGED <<config, counters, prober, rx_alive, file_url, file,
                   hookSink, tgSink, reporter>>

\* format!("{} {}\n", image_url, size) or format!("{}\n", image_url)
Line(image_url, size) ==
    IF size = None THEN image_url \o <<"\n">>
    ELSE image_url \o <<" ">> \o FormatU64(size[1]) \o <<"\n">>

\* file.write_all(..).unwrap(): the line is appended, or the thread panics.
FileWrite ==
    /\ filePc = "write"
    /\ \E ok \in BOOLEAN :
         IF ok
         THEN /\ file' = Append(file, Line(file_url, file_size))
              /\ filePc' = "recv"
              /\ h' = [h EXCEPT !.line_of = Append(@, Len(h.file_recv))]
              /\ UNCHANGED channels
         ELSE /\ file' = file
              /\ filePc' = "dead"
              /\ Drop(FileReceivers)
              /\ h' = Bump("write_failures")
    /\ file_size' = None
    /\ UNCHANGED <<config, counters, prober, file_url, hookSink, tgSink, reporter>>

stream_to_file == FileOpen \/ FileRecv \/ FileTryRecvSize \/ FileWrite

\* http::get_webhook_with_token(id, &token).expect("valid webhook")
HookInit ==
    /\ hookPc = "init"
    /\ \E ok \in BOOLEAN :
         IF ok THEN hookPc' = "recv" /\ UNCHANGED channels
         ELSE hookPc' = "dead" /\ Drop({"tx_hook"})
    /\ UNCHANGED <<config, counters, prober, fileSink, hook_url, hook_calls,
                   tgSink, reporter, h>>

\* for image_url in rx
HookRecv ==
    /\ hookPc = "recv"
    /\ chan["tx_hook"] # <<>>
    /\ hook_url' = Head(chan["tx_hook"])
    /\ chan' = [chan EXCEPT !["tx_hook"] = Tail(@)]
    /\ hookPc' = "execute"
    /\ UNCHANGED <<config, counters, prober, rx_alive, fileSink, hook_calls,
                   tgSink, reporter, h>>

\* let _ = webhook.execute(..): one call, its result thrown away.
HookExecute ==
    /\ hookPc = "execute"
    /\ hook_calls' = Append(hook_calls, hook_url)
    /\ \E ok \in BOOLEAN : h' = [h EXCEPT !.hook_all_failed = @ /\ ~ok]
    /\ hookPc' = "recv"
    /\ UNCHANGED <<config, counters, prober, channels, fileSink, hook_url,
                   tgSink, reporter>>

stream_to_webhook == HookInit \/ HookRecv \/ HookExecute

\* HttpsConnector::new(4).expect(..) and Runtime::new().expect(..)
TgInit ==
    /\ tgPc = "init"
    /\ \E ok \in BOOLEAN :
         IF ok THEN tgPc' = "recv" /\ UNCHANGED channels
         ELSE tgPc' = "dead" /\ Drop({"tx_tg"})
    /\ UNCHANGED <<config, counters, prober, fileSink, hookSink, tg_url, tg_calls,
                   reporter, h>>

\* for image_url in rx
TgRecv ==
    /\ tgPc = "recv"
    /\ chan["tx_tg"] # <<>>
    /\ tg_url' = Head(chan["tx_tg"])
    /\ chan' = [chan EXCEPT !["tx_tg"] = Tail(@)]
    /\ tgPc' = "block_on"
    /\ UNCHANGED <<config, counters, prober, rx_alive, fileSink, hookSink, tg_calls,
                   reporter, h>>

\* runtime.block_on(work).is_err(): one GET, its result thrown away.
TgBlockOn ==
    /\ tgPc = "block_on"
    /\ tg_calls' = Append(tg_calls, tg_url)
    /\ \E ok \in BOOLEAN : h' = [h EXCEPT !.tg_all_failed = @ /\ ~ok]
    /\ tgPc' = "recv"
    /\ UNCHANGED <<config, counters, prober, channels, fileSink, hookSink, tg_url,
                   reporter>>

stream_to_telegram == TgInit \/ TgRecv \/ TgBlockOn

(***************************************************************************)
(* The state when main enters its loop (line 274): the channels exist and  *)
(* are empty, the enabled sink threads and print_statistics are spawned,   *)
(* the counters are 0.                                                     *)
(***************************************************************************)
History0 ==
    [responses |-> 0, ok |-> 0, twoxx |-> 0, errors |-> 0, body_errors |-> 0,
     dropped |-> 0, restarts |-> 0,
     req_incs |-> 0, found_incs |-> 0, win_reqs |-> 0, win_found |-> 0,
     raced |-> FALSE, window |-> 0,
     sum_sec |-> 0, sum_min |-> 0, sec_samples |-> 0, min_samples |-> 0,
     sec_sample_win |-> 0, min_sample_win |-> 0,
     sec_at |-> None, sec_period |-> None,
     min_at |-> 0, min_period |-> None, sec_resets |-> 0, min_resets |-> 0,
     found |-> <<>>, declared |-> <<>>, enq |-> [c \in Channels |-> <<>>], fail |-> [c \in Channels |-> 0],
     file_recv |-> <<>>, line_of |-> <<>>, file_skipped |-> 0, write_failures |-> 0,
     hook_all_failed |-> TRUE, tg_all_failed |-> TRUE]

InitMain ==
    /\ request_per_second = 0 /\ found_per_minute = 0
    /\ total_requests = 0 /\ total_found = 0
    /\ mainPc = "poll" /\ queue = <<>> /\ cur = None /\ issued = 0
    /\ chan = [c \in Channels |-> <<>>]
    /\ rx_alive = [c \in Channels |-> TRUE]
    /\ h = History0

InitSinks ==
    /\ filePc = (IF export = "none" THEN "off" ELSE "open")
    /\ file_url = None /\ file_size = None /\ file = <<>>
    /\ hookPc = (IF hook_on THEN "init" ELSE "off")
    /\ hook_url = None /\ hook_calls = <<>>
    /\ tgPc = (IF tg_on THEN "init" ELSE "off")
    /\ tg_url = None /\ tg_calls = <<>>

InitReporter ==
    /\ statPc = "print"
    /\ elapsed_seconds = 0 /\ elapsed_milliseconds = 0
    /\ cached_found_per_seconds = 0 /\ cached_found_per_minute = 0
    /\ loaded_total_requests = 0 /\ rendered = None /\ ticks = 0

\* The command lines of the runs with sinks: the file sink alone with
\* --report-size and a relay sink alone, each with every --concurrent, and
\* the file sink beside a relay sink with the largest --concurrent.
SinkConfigs ==
    [n_concurrent : 0..MaxConcurrent,
     sinks : {[export |-> "size", hook_on |-> FALSE, tg_on |-> FALSE],
              [export |-> "none", hook_on |-> FALSE, tg_on |-> TRUE]}]
        \cup [n_concurrent : {MaxConcurrent},
              sinks : {[export |-> "plain", hook_on |-> TRUE, tg_on |-> FALSE]}]

Init ==
    /\ \E c \in SinkConfigs :
         /\ n_concurrent = c.n_concurrent
         /\ export = c.sinks.export
         /\ hook_on = c.sinks.hook_on
         /\ tg_on = c.sinks.tg_on
    /\ InitMain /\ InitSinks /\ InitReporter

\* The main thread and the sink threads.  print_statistics is left out of
\* this specification: it writes request_per_second and found_per_minute
\* only, which neither the pipeline nor a sink ever reads.
Next ==
    \/ Prober(Tokens, Responses)
    \/ stream_to_file \/ stream_to_webhook \/ stream_to_telegram

Spec == Init /\ [][Next]_vars

(***************************************************************************)
(* The run without sink flags: the main thread and print_statistics.  The  *)
(* counters do not depend on the token or on the Content-Length header, so *)
(* one token and the two classes of status are drawn.  print_statistics    *)
(* starts at 0 ms, or at 58950 ms with nothing issued yet (the state the   *)
(* run from 0 ms reaches when no request was issued in that time), which   *)
(* brings the first minute boundary within MaxTicks sleeps; that start is  *)
(* taken with the largest --concurrent.                                    *)
(***************************************************************************)
StatTokens == {"aaaaaaa"}
StatResponses == [status : {StatusOK, 404}, content_length : {None}]
MinuteEveMs == (MinuteSeconds - 1) * SecondMs - TickMs

\* elapsed_seconds when the loop is at its top with elapsed_milliseconds = ms
SecondsAt(ms) == IF ms = 0 THEN 0 ELSE ((ms - TickMs) \div SecondMs) + 1

StatStarts ==
    [n_concurrent : 0..MaxConcurrent, ms : {0}]
        \cup [n_concurrent : {MaxConcurrent}, ms : {MinuteEveMs}]

InitStats ==
    /\ \E c \in StatStarts :
         n_concurrent = c.n_concurrent /\ elapsed_milliseconds = c.ms
    /\ export = "none" /\ hook_on = FALSE /\ tg_on = FALSE
    /\ InitMain /\ InitSinks
    /\ statPc = "print"
    /\ elapsed_seconds = SecondsAt(elapsed_milliseconds)
    /\ cached_found_per_seconds = 0 /\ cached_found_per_minute = 0
    /\ loaded_total_requests = 0 /\ rendered = None /\ ticks = 0

NextStats == Prober(StatTokens, StatResponses) \/ Reporter

SpecStats == InitStats /\ [][NextStats]_vars

(***************************************************************************)
(* The run with the webhook sink, when the main thread is scheduled again  *)
(* and again and every request in flight is eventually answered or failed: *)
(* the main thread takes a step whenever it has one.  Nothing is assumed   *)
(* of the sink thread, which may stall for ever.  The progress of the main *)
(* thread does not depend on the token or on the Content-Length header.    *)
(***************************************************************************)
InitFair ==
    /\ n_concurrent \in 0..MaxConcurrent
    /\ export = "none" /\ hook_on = TRUE /\ tg_on = FALSE
    /\ InitMain /\ InitSinks /\ InitReporter

NextFair == Prober(StatTokens, StatResponses) \/ stream_to_webhook

SpecFair ==
    InitFair /\ [][NextFair]_vars /\ WF_vars(Prober(StatTokens, StatResponses))

(***************************************************************************)
(* The run of two minutes: print_statistics from 0 ms over MaxMinuteTicks  *)
(* sleeps.  Its clock is local to the thread and no step of the main       *)
(* thread changes it; the run is taken with --concurrent 0, where          *)
(* buffer_unordered never asks the generator for a request and the main    *)
(* thread has no step.                                                     *)
(***************************************************************************)
InitMinute ==
    /\ n_concurrent = 0
    /\ export = "none" /\ hook_on = FALSE /\ tg_on = FALSE
    /\ InitMain /\ InitSinks /\ InitReporter

NextMinute == ReporterLong

SpecMinute == InitMinute /\ [][NextMinute]_vars

(***************************************************************************)
(* The run without sink flags taken from the moment the first pipeline has *)
(* filled buffer_unordered: n_concurrent requests are in flight, and up to *)
(* MaxProbes more are issued from there.                                   *)
(***************************************************************************)
InitWindow ==
    /\ n_concurrent \in 1..MaxConcurrent
    /\ export = "none" /\ hook_on = FALSE /\ tg_on = FALSE
    /\ request_per_second = 0 /\ found_per_minute = 0
    /\ total_requests = 0 /\ total_found = 0
    /\ mainPc = "poll" /\ cur = None /\ issued = 0
    /\ \E toks \in [1..n_concurrent -> Tokens] :
         queue = [i \in 1..n_concurrent |-> UriGenerator_next(toks[i])]
    /\ chan = [c \in Channels |-> <<>>]
    /\ rx_alive = [c \in Channels |-> TRUE]
    /\ h = History0
    /\ InitSinks /\ InitReporter

NextWindow == Prober(Tokens, Responses)

SpecWindow == InitWindow /\ [][NextWindow]_vars

(***************************************************************************)
(* Properties.                                                             *)
(***************************************************************************)
InClosure == mainPc \notin {"poll", "ended"}

\* The closure has not yet done the step at pc `at` for the response it holds.
Before(at) ==
    LET order == <<"request_per_second", "total_requests", "found_per_minute",
                   "total_found", "tx_size", "tx", "tx_hook", "tx_tg", "drain">>
        pos(x) == CHOOSE i \in 1..Len(order) : order[i] = x
    IN InClosure /\ pos(mainPc) <= pos(at)

\* C1: the requests issued and not yet handed to the closure (those held by
\* buffer_unordered) are never more than n_concurrent, and none is left
\* when a pipeline has ended and the loop is about to build the next one.
C1_Outstanding ==
    /\ Len(queue) <= n_concurrent
    /\ mainPc = "ended" => queue = <<>>

\* C1 witness: after a restart the new pipeline holds n_concurrent requests.
C1_Witness ==
    /\ h.restarts > 0
    /\ n_concurrent >= 1
    /\ Len(queue) = n_concurrent

\* C2, in every state: total_requests is the number of responses handed to
\* the closure and total_found the number of those with status 200, less
\* the one the closure has not counted yet.
C2_Counts ==
    /\ total_requests = h.responses - (IF Before("total_requests") THEN 1 ELSE 0)
    /\ total_found = h.ok - (IF Before("total_found") /\ cur.res.status = StatusOK
                              THEN 1 ELSE 0)

\* C2, in every step: neither lifetime counter decreases, and each grows
\* by at most 1.
C2_Step ==
    /\ total_requests' \in {total_requests, total_requests + 1}
    /\ total_found' \in {total_found, total_found + 1}

C3_Claim ==
    ~InClosure =>
        /\ total_requests = h.responses + h.errors
        /\ h.req_incs = h.responses + h.errors

\* C4 as claimed: the discoveries counted and forwarded are the responses
\* with a status of the 2xx class.
C4_Claim ==
    mainPc \in {"drain", "poll", "ended"} =>
        /\ total_found = h.twoxx
        /\ Len(h.enq["tx"]) + h.fail["tx"] = h.twoxx

\* C4 amended: a response is counted as a discovery and forwarded to the
\* channels iff its status is 200; every other status, 2xx or not, is not.
C4_Theorem ==
    mainPc \in {"drain", "poll", "ended"} =>
        /\ total_found = h.ok
        /\ h.found_incs = h.ok
        /\ \A c \in {"tx", "tx_hook", "tx_tg"} : Len(h.enq[c]) + h.fail[c] = h.ok

\* C4 witness: a 200 was forwarded and a 204 has just been classified
\* without a discovery.
C4_Witness ==
    /\ mainPc = "drain"
    /\ cur.res.status = 204
    /\ h.ok = 1 /\ total_found = 1 /\ Len(h.enq["tx_hook"]) = 1

UrlChannels == {"tx", "tx_hook", "tx_tg"}

\* The channel belongs to a sink that was spawned.
Registered(c) ==
    \/ c = "tx" /\ export # "none"
    \/ c = "tx_hook" /\ hook_on
    \/ c = "tx_tg" /\ tg_on

\* The discoveries whose send on channel c has been done.
Offered(c) ==
    SubSeq(h.found, 1,
           Len(h.found) - (IF Before(c) /\ cur.res.status = StatusOK THEN 1 ELSE 0))

\* What the sink of channel c has taken from it, in order.
Taken(c) ==
    IF c = "tx" THEN h.file_recv
    ELSE IF c = "tx_hook"
         THEN hook_calls \o (IF hookPc = "execute" THEN <<hook_url>> ELSE <<>>)
         ELSE tg_calls \o (IF tgPc = "block_on" THEN <<tg_url>> ELSE <<>>)

\* C5: for every successful probe exactly one send of its locator is made on
\* the channel of each registered sink, and none for any other probe; a send
\* fails only when the Receiver is gone, it ends no pipeline, and the sends
\* on the other channels are made all the same.
C5_Theorem ==
    /\ \A c \in UrlChannels :
         Registered(c) =>
            /\ Len(h.enq[c]) + h.fail[c] = Len(Offered(c))
            /\ h.enq[c] = SubSeq(h.found, 1, Len(h.enq[c]))
            /\ h.fail[c] > 0 => ~rx_alive[c]
    /\ h.restarts + (IF mainPc = "ended" THEN 1 ELSE 0) = h.errors + h.body_errors

\* C5 witness: the file sink is gone and a send to it has failed; the relay
\* sink was sent, and has taken, every discovery.
C5_Witness ==
    /\ export = "plain" /\ hook_on
    /\ h.fail["tx"] >= 1
    /\ Len(h.found) >= 1
    /\ h.enq["tx_hook"] = h.found
    /\ hook_calls = h.found

\* C6: no send of the main thread ever waits, whatever the sinks do; and
\* what a sink whose Receiver exists has taken, followed by what its channel
\* still holds, is the sequence of the discoveries made, whatever the state
\* of the other sinks.
C6_Theorem ==
    /\ mainPc = "tx_size" => ENABLED SendSize
    /\ mainPc = "tx" => ENABLED SendTx
    /\ mainPc = "tx_hook" => ENABLED SendHook
    /\ mainPc = "tx_tg" => ENABLED SendTg
    /\ \A c \in UrlChannels :
         Registered(c) /\ rx_alive[c] => Taken(c) \o chan[c] = Offered(c)

\* C6 witness: the file sink has taken nothing while its channel holds two
\* discoveries; the main thread has classified both probes and the relay
\* sink has made its call for each.
C6_Witness ==
    /\ export = "plain" /\ hook_on
    /\ filePc = "recv" /\ h.file_recv = <<>> /\ Len(chan["tx"]) = 2
    /\ mainPc = "poll" /\ h.responses = 2
    /\ hook_calls = h.found

\* C7 as claimed: whenever the file sink waits for the next discovery, it
\* has written one line for each discovery it received, starting with that
\* discovery's locator.
C7_Claim ==
    filePc = "recv" =>
        /\ Len(file) = Len(h.file_recv)
        /\ \A i \in 1..Len(file) :
             SubSeq(file[i], 1, Len(h.file_recv[i])) = h.file_recv[i]

\* C8 as claimed: once a write to the export file has failed nothing runs
\* any more: no probe is issued or classified and no sink makes a call.
C8_Claim ==
    [][h.write_failures > 0 => UNCHANGED <<prober, counters, hookSink, tgSink>>]_vars

\* Each sample is at most the increments made on its counter since the
\* previous store(0) (since the start, for the first sample), and no
\* increment is in two samples: the samples taken and what the counter
\* holds never add up to more than the increments made.
C9_Samples ==
    /\ h.sec_samples > 0 => cached_found_per_seconds <= h.sec_sample_win
    /\ h.min_samples > 0 => cached_found_per_minute <= h.min_sample_win
    /\ h.sum_sec + (IF statPc = "rps_store" THEN 0 ELSE request_per_second) <= h.req_incs
    /\ h.sum_min + (IF statPc = "fpm_store" THEN 0 ELSE found_per_minute) <= h.found_incs

\* C9 as claimed: besides, the per-second samples never add up to more than
\* total_requests, nor the per-minute samples to more than total_found.
C9_Claim ==
    /\ C9_Samples
    /\ h.sum_sec <= total_requests
    /\ h.sum_min <= total_found

\* C9 amended: the samples never add up to more than the increments made on
\* the windowed counter; as the closure increments the windowed counter
\* before the lifetime one, that is the lifetime total, plus 1 while the
\* closure stands between the two increments.
C9_Theorem ==
    /\ C9_Samples
    /\ h.sum_sec <= total_requests + (IF mainPc = "total_requests" THEN 1 ELSE 0)
    /\ h.sum_min <= total_found + (IF mainPc = "total_found" THEN 1 ELSE 0)

\* C9 witness: two per-second samples were taken, and the second holds a
\* request that total_requests does not show yet.
C9_Witness ==
    /\ h.sec_samples = 2
    /\ mainPc = "total_requests"
    /\ h.sum_sec = total_requests + 1

TicksPerSecond == SecondMs \div TickMs

\* The store(0) that ends a sample leaves the counter at 0, and when no
\* increment fell between the load and the store the value sampled is the
\* number of requests counted since the previous store(0); every print
\* shows the value sampled last.
C10_Step ==
    /\ statPc = "rps_store" /\ statPc' = "sleep" =>
          /\ request_per_second' = 0
          /\ ~h.raced => cached_found_per_seconds = h.win_reqs
    /\ statPc = "print_found" /\ statPc' # statPc =>
          rendered'[1].req_per_sec = cached_found_per_seconds

\* C10: request_per_second is sampled and reset every 20 sleeps of 50 ms;
\* with n requests counted in such a window and no increment between the
\* load and the store, the value shown is n and the counter is 0 right
\* after the store.
C10_Theorem ==
    /\ [](h.sec_period \in {None, Some(TicksPerSecond)})
    /\ [][C10_Step]_vars

\* C10 witness: the run from 0 ms has printed at 1050 ms, after the sample
\* at 1000 ms that ended a window of 20 sleeps in which all the requests of
\* the run were counted.
C10_Witness ==
    /\ elapsed_milliseconds = SecondMs + TickMs
    /\ statPc = "sleep"
    /\ h.sec_period = Some(TicksPerSecond)
    /\ h.window = MaxProbes
    /\ request_per_second = 0
    /\ rendered[1].req_per_sec = MaxProbes

TicksPerMinute == MinuteSeconds * TicksPerSecond

\* C11 as claimed: every window of found_per_minute, from the start of
\* print_statistics to the first sample and from one sample to the next,
\* is 1200 sleeps of 50 ms long.
C11_Claim == h.min_period \in {None, Some(TicksPerMinute)}

\* s is the beginning of t
IsPrefix(s, t) == Len(s) <= Len(t) /\ s = SubSeq(t, 1, Len(s))

\* C12: each sink acts on the discoveries in the order of their sends on
\* its channel, whatever pipelines ended in between: the file sink receives
\* them in that order and its lines, each for the discovery received last
\* before it, follow that order; the calls of each relay sink are, in order,
\* the first discoveries sent on its channel.
C12_Theorem ==
    /\ IsPrefix(h.file_recv, h.enq["tx"])
    /\ Len(h.line_of) = Len(file)
    /\ \A j \in 1..Len(file) :
         /\ h.line_of[j] \in 1..Len(h.file_recv)
         /\ IsPrefix(h.enq["tx"][h.line_of[j]], file[j])
         /\ \A k \in 1..Len(file) : j < k => h.line_of[j] < h.line_of[k]
    /\ IsPrefix(hook_calls, h.enq["tx_hook"])
    /\ IsPrefix(tg_calls, h.enq["tx_tg"])

\* C12 witness: two discoveries with different locators, a pipeline ended
\* and rebuilt between them (the second one's body is not drained yet), and
\* the file holds a line for each, in the order of the sends.
C12_Witness ==
    /\ export = "size"
    /\ h.restarts = 1 /\ mainPc = "drain"
    /\ Len(h.enq["tx"]) = 2 /\ h.enq["tx"][1] # h.enq["tx"][2]
    /\ Len(file) = 2 /\ h.line_of = <<1, 2>>

\* C12 witness for a relay sink: the same with the two calls of the relay.
C12_WitnessRelay ==
    /\ tg_on
    /\ h.restarts = 1 /\ mainPc = "drain"
    /\ Len(h.enq["tx_tg"]) = 2 /\ h.enq["tx_tg"][1] # h.enq["tx_tg"][2]
    /\ tg_calls = h.enq["tx_tg"]

\* C13: with --concurrent >= 1 the main thread goes on issuing requests
\* (here: up to the MaxProbes requests of a run, every count of issued
\* requests short of it is followed by a larger one), and a pipeline that
\* has ended is always followed by a new one that polls again.
C13_Theorem ==
    /\ \A k \in 0..(MaxProbes - 1) :
         (n_concurrent >= 1 /\ issued = k) ~> (issued = k + 1)
    /\ (mainPc = "ended") ~> (mainPc = "poll")

\* C13 witness: a pipeline has ended on an error, the loop has built the
\* next one, and that one holds a request issued after the restart.
C13_Witness ==
    /\ n_concurrent >= 1
    /\ h.errors + h.body_errors >= 1
    /\ h.restarts = h.errors + h.body_errors
    /\ mainPc = "poll" /\ queue # <<>>

\* C14 as claimed, for the webhook sink: whatever becomes of the calls to
\* its endpoint, an enabled relay sink is never stopped and goes on taking
\* the discoveries sent to it, so that no send to it ever fails.  (The
\* telegram sink calls its endpoint in its loop only, where the result of
\* the call is thrown away.)
C14_Claim ==
    hook_on => hookPc # "dead" /\ rx_alive["tx_hook"] /\ h.fail["tx_hook"] = 0

\* C15 as claimed: a transport failure touches the failed request only, and
\* no request issued is abandoned: every request issued is still in flight,
\* or was handed to the classification, or is one that failed.
C15_Claim == issued = Len(queue) + h.responses + h.errors

\* A response is handed to the closure only from a full queue: while the
\* closure works, one request less than n_concurrent is in flight.
C16_Window ==
    InClosure /\ issued < MaxProbes => Len(queue) = n_concurrent - 1

\* When the pipeline is polled with fewer than n_concurrent requests in
\* flight, its next step issues a request: no other request in flight is
\* waited for first.
C16_Step ==
    (/\ mainPc = "poll" /\ Len(queue) < n_concurrent /\ issued < MaxProbes
     /\ prober' # prober)
        => /\ mainPc' = "poll"
           /\ issued' = issued + 1
           /\ Len(queue') = Len(queue) + 1
           /\ SubSeq(queue', 1, Len(queue)) = queue

\* C16: the requests in flight are a sliding window: after each single
\* completion a new request is issued before any other completion is taken,
\* which brings the requests in flight back to n_concurrent.
C16_Theorem == [](C16_Window) /\ [][C16_Step]_vars

\* C16 witness: with two requests in flight one was answered and handled,
\* and a new one was issued while the other was still in flight: two are
\* in flight again, the older of them from before the completion.
C16_Witness ==
    /\ n_concurrent = 2
    /\ h.responses = 1 /\ h.errors = 0 /\ h.body_errors = 0
    /\ issued = 1
    /\ mainPc = "poll" /\ Len(queue) = n_concurrent

\* elapsed_milliseconds when print_statistics started
StartMs == elapsed_milliseconds - ticks * TickMs

\* The second and minute boundaries print_statistics has met so far: the
\* times it found elapsed_milliseconds % 1000 = 0, and among them the times
\* it found elapsed_seconds % 60 = 0.
SecondsMet == elapsed_seconds - SecondsAt(StartMs)
MinutesMet == (elapsed_seconds \div MinuteSeconds) - (SecondsAt(StartMs) \div MinuteSeconds)

\* Each windowed counter was set to zero once for each boundary of its
\* window met, the boundary being worked on excepted.
C17_Resets ==
    /\ h.sec_resets + (IF statPc \in {"fpm_load", "fpm_store", "rps_load", "rps_store"}
                       THEN 1 ELSE 0) = SecondsMet
    /\ h.min_resets + (IF statPc \in {"fpm_load", "fpm_store"} THEN 1 ELSE 0) = MinutesMet

\* A step of print_statistics leaves the lifetime totals as they are; a
\* step of the main thread leaves each counter as it is or adds 1 to it;
\* a windowed counter changes otherwise only by the store(0) of
\* print_statistics at the boundary of its window.
C17_Frame ==
    /\ reporter' # reporter =>
          total_requests' = total_requests /\ total_found' = total_found
    /\ prober' # prober =>
          /\ request_per_second' \in {request_per_second, request_per_second + 1}
          /\ found_per_minute' \in {found_per_minute, found_per_minute + 1}
          /\ total_requests' \in {total_requests, total_requests + 1}
          /\ total_found' \in {total_found, total_found + 1}
    /\ request_per_second' \notin {request_per_second, request_per_second + 1} =>
          statPc = "rps_store" /\ statPc' = "sleep" /\ request_per_second' = 0
    /\ found_per_minute' \notin {found_per_minute, found_per_minute + 1} =>
          statPc = "fpm_store" /\ statPc' = "rps_load" /\ found_per_minute' = 0
    /\ statPc = "rps_store" /\ statPc' # statPc => request_per_second' = 0
    /\ statPc = "fpm_store" /\ statPc' # statPc => found_per_minute' = 0

\* C17: print_statistics only loads the lifetime totals, the main thread
\* only adds 1 to a counter, and the windowed counters are set to zero by
\* print_statistics alone, once at each boundary of their window.
C17_Theorem == [](C17_Resets) /\ [][C17_Frame]_vars

\* C17 witness: the minute boundary has passed with discoveries counted:
\* both windowed counters were sampled and set to zero, the per-second one
\* twice, and the lifetime totals still hold every request and discovery.
C17_Witness ==
    /\ statPc = "sleep"
    /\ h.min_resets = 1 /\ h.sec_resets = 2
    /\ cached_found_per_minute >= 1
    /\ request_per_second = 0 /\ found_per_minute = 0
    /\ total_requests = MaxProbes /\ total_found >= 1
    /\ total_found = h.ok

\* C18 as claimed: the channel of a sink that was not spawned, and tx_size
\* unless the file sink was spawned with --report-size, never holds a value.
C18_Claim ==
    /\ \A c \in UrlChannels : ~Registered(c) => chan[c] = <<>>
    /\ export # "size" => chan["tx_size"] = <<>>

\* C19: with --report-size, as long as every response with status 200 has
\* declared a Content-Length that is a number, the i-th line of the file is
\* the locator of the i-th discovery, a space, the number declared by the
\* response of that same discovery, and a newline.
C19_Theorem ==
    (export = "size" /\ \A i \in 1..Len(h.declared) : h.declared[i] # None) =>
        /\ Len(file) <= Len(h.found)
        /\ h.file_skipped = 0
        /\ \A i \in 1..Len(file) :
             file[i] = h.found[i] \o <<" ">> \o FormatU64(h.declared[i][1]) \o <<"\n">>

\* C19 witness: two discoveries, the first declaring 7 and the second, not
\* drained yet, 12; the file holds the line of each, the first with 7 and
\* the second with 12.
C19_Witness ==
    /\ export = "size"
    /\ h.declared = <<Some(7), Some(12)>>
    /\ mainPc = "drain" /\ cur.res.content_length = Some(<<"1", "2">>)
    /\ h.found[1] # h.found[2]
    /\ Len(file) = 2
    /\ file[1] = h.found[1] \o <<" ", "7", "\n">>
    /\ file[2] = h.found[2] \o <<" ", "1", "2", "\n">>

\* C20 as claimed: total_found is never more than total_requests, in the
\* counters and in the pair printed on one line.
C20_Claim ==
    /\ total_found <= total_requests
    /\ rendered # None => rendered[1].total_found <= rendered[1].total_reqs

\* C20 amended: total_found is never more than total_requests in the
\* counters; the two values printed on one line are loaded one after the
\* other (total_requests first): each is at most what its counter holds
\* since, and so at most total_requests, but the total found printed can
\* be more than the total reqs printed beside it.
C20_Theorem ==
    /\ total_found <= total_requests
    /\ statPc = "print_found" => loaded_total_requests <= total_requests
    /\ rendered # None =>
          /\ rendered[1].total_reqs <= total_requests
          /\ rendered[1].total_found <= total_found
          /\ rendered[1].total_found <= total_requests

\* C20 witness: a line was printed with more discoveries than requests: a
\* request answered 200 was counted between the two loads.
C20_Witness ==
    /\ rendered # None
    /\ rendered[1].total_found = rendered[1].total_reqs + 1
    /\ total_found <= total_requests

==========================================================================
